---- MODULE Spec2Model ----
(***************************************************************************)
(* Room-scoped WebSocket relay (src/main.go).  One handleWebSocket         *)
(* goroutine runs per connection; all of them share Broadcaster.rooms,     *)
(* protected by Broadcaster.lock (a sync.RWMutex).  A session is           *)
(* identified with the connection handle its upgrade yields.               *)
(***************************************************************************)
EXTENDS Integers, Sequences, FiniteSets, TLC

\* ------------------------------------------------------------- bounds
MaxRecv == 2           \* messages ReadMessage delivers over the whole run

\* one handleWebSocket goroutine per handle
Conns == {"c1", "c2", "c3"}
RoomIds == {"A", "B"}                  \* non-empty ?room= values
NoRoom == ""                           \* missing or empty ?room=
MessageTypes == {"text", "binary"}     \* websocket.TextMessage / BinaryMessage
Payloads == {"hi"}
Msgs == MessageTypes \X Payloads
None == "none"                             \* no goroutine / no client / nil
NoMsg == <<>>

VARIABLES
    rooms,       \* b.rooms: room name -> set of handles; DOMAIN = the map's keys
    lockW,       \* b.lock: the goroutine inside Lock()..Unlock() (pending or holding)
    lockHeld,    \* b.lock: TRUE when lockW has the exclusive lock
    readers,     \* b.lock: goroutines counted as readers (readerCount)
    readerWait,  \* b.lock: goroutines parked in RLock() behind a writer
    pc,          \* position of each handleWebSocket goroutine
    roomName,    \* local roomName of each goroutine
    conn,        \* state of each goroutine's handle: "nil", "open", "closed"
    cur,         \* (messageType, message) of the last successful ReadMessage
    visited,     \* keys the range loop of the current fan-out has yielded
    client,      \* loop variable: the handle WriteMessage is running on
    sendlog,     \* per goroutine and handle: the WriteMessage calls of this fan-out
    failed,      \* handles whose WriteMessage returned an error in this fan-out
    snap,        \* members of the room when the read lock was obtained
    joins,       \* how often the join has run b.rooms[roomName][conn] = true
    leaves,      \* how often the deferred leave has run delete(b.rooms[roomName], conn)
    nrecv        \* messages received so far (all goroutines)

vars == <<rooms, lockW, lockHeld, readers, readerWait, pc, roomName, conn, cur,
          visited, client, sendlog, failed, snap, joins, leaves, nrecv>>

lockVars == <<lockW, lockHeld, readers, readerWait>>
loopVars == <<cur, visited, client, sendlog, failed, snap>>

\* ------------------------------------------------------------- helpers
\* b.rooms[r] of a missing key is the nil map: no members, len 0
Members(r) == IF r \in DOMAIN rooms THEN rooms[r] ELSE {}

EmptyLog == [c \in Conns |-> <<>>]

\* make(map[...]) : the map with no keys
EmptyMap == [x \in {} |-> {}]

\* m[k] = v on a map held as a function
MapPut(m, k, v) == [x \in (DOMAIN m) \cup {k} |-> IF x = k THEN v ELSE m[x]]

\* delete(m, k) on a map held as a function (no-op when k is no key)
MapDelete(m, k) == [x \in (DOMAIN m) \ {k} |-> m[x]]

Init ==
    /\ rooms = EmptyMap
    /\ lockW = None
    /\ lockHeld = FALSE
    /\ readers = {}
    /\ readerWait = {}
    /\ pc = [s \in Conns |-> "start"]
    /\ roomName = [s \in Conns |-> NoRoom]
    /\ conn = [s \in Conns |-> "nil"]
    /\ cur = [s \in Conns |-> NoMsg]
    /\ visited = [s \in Conns |-> {}]
    /\ client = [s \in Conns |-> None]
    /\ sendlog = [s \in Conns |-> EmptyLog]
    /\ failed = [s \in Conns |-> {}]
    /\ snap = [s \in Conns |-> {}]
    /\ joins = [s \in Conns |-> 0]
    /\ leaves = [s \in Conns |-> 0]
    /\ nrecv = 0

\* ------------------------------------------------------------- sync.RWMutex
\* Lock(), first half: take the writers' mutex and announce the writer, which
\* turns every later RLock() away until Unlock()
LockRequest(s) ==
    /\ lockW = None
    /\ lockW' = s
    /\ UNCHANGED <<lockHeld, readers, readerWait>>

\* Lock(), second half: the announced writer goes on once the readers have left
LockAcquire(s) ==
    /\ lockW = s
    /\ ~lockHeld
    /\ readers = {}
    /\ lockHeld' = TRUE
    /\ UNCHANGED <<lockW, readers, readerWait>>

\* Unlock(): the parked readers become readers, then the writers' mutex is freed
Unlock(s) ==
    /\ lockW = s
    /\ lockHeld
    /\ lockW' = None
    /\ lockHeld' = FALSE
    /\ readers' = readers \cup readerWait
    /\ readerWait' = {}

\* RLock() returns at once when no writer is announced
RLockFree == lockW = None

\* ------------------------------------------------------------- handshake
\* RejectRoom without the return of line 46: the handler goes on to the join
RejectRoom_NoReturn(s) ==
    /\ pc[s] = "start"
    /\ roomName' = [roomName EXCEPT ![s] = NoRoom]
    /\ conn' = [conn EXCEPT ![s] = "open"]
    /\ pc' = [pc EXCEPT ![s] = "join_lock"]
    /\ UNCHANGED <<rooms, lockVars, loopVars, leaves, nrecv, joins>>

\* lines 43-47: empty room name -> 400, return
RejectRoom(s) ==
    /\ pc[s] = "start"
    /\ roomName' = [roomName EXCEPT ![s] = NoRoom]
    /\ pc' = [pc EXCEPT ![s] = "rejected"]
    /\ UNCHANGED <<rooms, lockVars, conn, loopVars, leaves, nrecv, joins>>

\* lines 43-54: room name given, upgrader.Upgrade fails -> return
UpgradeFail(s, r) ==
    /\ pc[s] = "start"
    /\ roomName' = [roomName EXCEPT ![s] = r]
    /\ pc' = [pc EXCEPT ![s] = "dropped"]
    /\ UNCHANGED <<rooms, lockVars, conn, loopVars, leaves, nrecv, joins>>

\* lines 43-56: room name given, upgrade succeeds, conn.Close is deferred
UpgradeOk(s, r) ==
    /\ pc[s] = "start"
    /\ roomName' = [roomName EXCEPT ![s] = r]
    /\ conn' = [conn EXCEPT ![s] = "open"]
    /\ pc' = [pc EXCEPT ![s] = "join_lock"]
    /\ UNCHANGED <<rooms, lockVars, loopVars, leaves, nrecv, joins>>

\* ------------------------------------------------------------- join (lines 59-66)
JoinLock(s) ==
    /\ pc[s] = "join_lock"
    /\ LockRequest(s)
    /\ pc' = [pc EXCEPT ![s] = "join_wait"]
    /\ UNCHANGED <<rooms, roomName, conn, loopVars, leaves, nrecv, joins>>

JoinLocked(s) ==
    /\ pc[s] = "join_wait"
    /\ LockAcquire(s)
    /\ pc' = [pc EXCEPT ![s] = "join_create"]
    /\ UNCHANGED <<rooms, roomName, conn, loopVars, leaves, nrecv, joins>>

\* JoinCreate without the test of line 61: the room is made anew on every join
JoinCreate_Always(s) ==
    /\ pc[s] = "join_create"
    /\ rooms' = MapPut(rooms, roomName[s], {})
    /\ pc' = [pc EXCEPT ![s] = "join_add"]
    /\ UNCHANGED <<lockVars, roomName, conn, loopVars, leaves, nrecv, joins>>

\* lines 61-63: create the room when it is no key of the map
JoinCreate(s) ==
    /\ pc[s] = "join_create"
    /\ rooms' = IF roomName[s] \in DOMAIN rooms
                THEN rooms
                ELSE MapPut(rooms, roomName[s], {})
    /\ pc' = [pc EXCEPT ![s] = "join_add"]
    /\ UNCHANGED <<lockVars, roomName, conn, loopVars, leaves, nrecv, joins>>

\* JoinAdd assigning a fresh inner map holding conn alone
JoinAdd_Replace(s) ==
    /\ pc[s] = "join_add"
    /\ rooms' = MapPut(rooms, roomName[s], {s})
    /\ joins' = [joins EXCEPT ![s] = @ + 1]
    /\ pc' = [pc EXCEPT ![s] = "join_unlock"]
    /\ UNCHANGED <<lockVars, roomName, conn, loopVars, leaves, nrecv>>

\* JoinAdd without line 65: the handle is not put into the room
JoinAdd_Forget(s) ==
    /\ pc[s] = "join_add"
    /\ joins' = [joins EXCEPT ![s] = @ + 1]
    /\ pc' = [pc EXCEPT ![s] = "join_unlock"]
    /\ UNCHANGED <<rooms, lockVars, roomName, conn, loopVars, leaves, nrecv>>

\* line 65: b.rooms[roomName][conn] = true
JoinAdd(s) ==
    /\ pc[s] = "join_add"
    /\ rooms' = MapPut(rooms, roomName[s], Members(roomName[s]) \cup {s})
    /\ joins' = [joins EXCEPT ![s] = @ + 1]
    /\ pc' = [pc EXCEPT ![s] = "join_unlock"]
    /\ UNCHANGED <<lockVars, roomName, conn, loopVars, leaves, nrecv>>

\* line 66
JoinUnlock(s) ==
    /\ pc[s] = "join_unlock"
    /\ Unlock(s)
    /\ pc' = [pc EXCEPT ![s] = "log"]
    /\ UNCHANGED <<rooms, roomName, conn, loopVars, leaves, nrecv, joins>>

\* line 68: log.Printf reads len(b.rooms[roomName]) after the Unlock of line
\* 66, with no lock held; the count is only printed
LogCount(s) ==
    /\ pc[s] = "log"
    /\ pc' = [pc EXCEPT ![s] = "recv"]
    /\ UNCHANGED <<rooms, lockVars, roomName, conn, loopVars, leaves, nrecv, joins>>

\* ------------------------------------------------------------- relay loop (lines 86-114)
\* ReadMessage with the sends not awaited: the loop reads its next message
\* while a WriteMessage call of the previous fan-out is still running
ReadMessage_Early(s, m) ==
    /\ pc[s] \in {"recv", "write"}
    /\ nrecv < MaxRecv
    /\ nrecv' = nrecv + 1
    /\ cur' = [cur EXCEPT ![s] = m]
    /\ pc' = [pc EXCEPT ![s] = "rlock"]
    /\ UNCHANGED <<rooms, lockVars, roomName, conn, visited, client, sendlog,
                   failed, snap, leaves, joins>>

\* line 89: ReadMessage returns a message
ReadMessage(s, m) ==
    /\ pc[s] = "recv"
    /\ nrecv < MaxRecv
    /\ nrecv' = nrecv + 1
    /\ cur' = [cur EXCEPT ![s] = m]
    /\ pc' = [pc EXCEPT ![s] = "rlock"]
    /\ UNCHANGED <<rooms, lockVars, roomName, conn, visited, client, sendlog,
                   failed, snap, leaves, joins>>

\* ReadError with the leave not deferred: only conn.Close() runs on return
ReadError_NoLeave(s) ==
    /\ pc[s] = "recv"
    /\ pc' = [pc EXCEPT ![s] = "close"]
    /\ UNCHANGED <<rooms, lockVars, roomName, conn, loopVars, leaves, nrecv, joins>>

\* lines 89-94: ReadMessage returns an error -> break; the deferred calls run
ReadError(s) ==
    /\ pc[s] = "recv"
    /\ pc' = [pc EXCEPT ![s] = "leave_lock"]
    /\ UNCHANGED <<rooms, lockVars, roomName, conn, loopVars, leaves, nrecv, joins>>

\* RLock with line 97 missing: the range starts without the read lock
RLock_Missing(s) ==
    /\ pc[s] = "rlock"
    /\ snap' = [snap EXCEPT ![s] = Members(roomName[s])]
    /\ pc' = [pc EXCEPT ![s] = "range"]
    /\ UNCHANGED <<rooms, lockVars, roomName, conn, cur, visited, client,
                   sendlog, failed, leaves, nrecv, joins>>

\* line 97: RLock() with no writer announced
RLock(s) ==
    /\ pc[s] = "rlock"
    /\ RLockFree
    /\ readers' = readers \cup {s}
    /\ snap' = [snap EXCEPT ![s] = Members(roomName[s])]
    /\ pc' = [pc EXCEPT ![s] = "range"]
    /\ UNCHANGED <<rooms, lockW, lockHeld, readerWait, roomName, conn, cur,
                   visited, client, sendlog, failed, leaves, nrecv, joins>>

\* line 97: RLock() behind an announced writer parks the goroutine
RLockPark(s) ==
    /\ pc[s] = "rlock"
    /\ ~RLockFree
    /\ readerWait' = readerWait \cup {s}
    /\ pc' = [pc EXCEPT ![s] = "rlock_wait"]
    /\ UNCHANGED <<rooms, lockW, lockHeld, readers, roomName, conn, loopVars,
                   leaves, nrecv, joins>>

\* line 97: a parked RLock() returns after the writer's Unlock()
RLockWake(s) ==
    /\ pc[s] = "rlock_wait"
    /\ s \in readers
    /\ snap' = [snap EXCEPT ![s] = Members(roomName[s])]
    /\ pc' = [pc EXCEPT ![s] = "range"]
    /\ UNCHANGED <<rooms, lockVars, roomName, conn, cur, visited, client,
                   sendlog, failed, leaves, nrecv, joins>>

\* RangeSelf without the test of line 102: the sender is written to as well
RangeSelf_Echo(s) ==
    /\ pc[s] = "range"
    /\ s \in Members(roomName[s]) \ visited[s]
    /\ visited' = [visited EXCEPT ![s] = @ \cup {s}]
    /\ client' = [client EXCEPT ![s] = s]
    /\ sendlog' = [sendlog EXCEPT ![s][s] = Append(@, cur[s])]
    /\ pc' = [pc EXCEPT ![s] = "write"]
    /\ UNCHANGED <<rooms, lockVars, roomName, conn, cur, failed, snap, leaves, nrecv, joins>>

\* lines 100-102: the range yields the sender's own handle, which is skipped
RangeSelf(s) ==
    /\ pc[s] = "range"
    /\ s \in Members(roomName[s]) \ visited[s]
    /\ visited' = [visited EXCEPT ![s] = @ \cup {s}]
    /\ UNCHANGED <<rooms, lockVars, pc, roomName, conn, cur, client, sendlog,
                   failed, snap, leaves, nrecv, joins>>

\* RangeClient ranging over the members of every room instead of b.rooms[roomName]
RangeClient_AnyRoom(s, c) ==
    /\ pc[s] = "range"
    /\ c \in (UNION {Members(r) : r \in DOMAIN rooms}) \ visited[s]
    /\ c # s
    /\ visited' = [visited EXCEPT ![s] = @ \cup {c}]
    /\ client' = [client EXCEPT ![s] = c]
    /\ sendlog' = [sendlog EXCEPT ![s][c] = Append(@, cur[s])]
    /\ pc' = [pc EXCEPT ![s] = "write"]
    /\ UNCHANGED <<rooms, lockVars, roomName, conn, cur, failed, snap, leaves, nrecv, joins>>

\* lines 100-104: the range yields another member c (in any order) and
\* WriteMessage(messageType, message) is called on it
RangeClient(s, c) ==
    /\ pc[s] = "range"
    /\ c \in Members(roomName[s]) \ visited[s]
    /\ c # s
    /\ visited' = [visited EXCEPT ![s] = @ \cup {c}]
    /\ client' = [client EXCEPT ![s] = c]
    /\ sendlog' = [sendlog EXCEPT ![s][c] = Append(@, cur[s])]
    /\ pc' = [pc EXCEPT ![s] = "write"]
    /\ UNCHANGED <<rooms, lockVars, roomName, conn, cur, failed, snap, leaves, nrecv, joins>>

\* line 104: WriteMessage returns nil
WriteOk(s) ==
    /\ pc[s] = "write"
    /\ client' = [client EXCEPT ![s] = None]
    /\ pc' = [pc EXCEPT ![s] = "range"]
    /\ UNCHANGED <<rooms, lockVars, roomName, conn, cur, visited, sendlog, failed,
                   snap, leaves, nrecv, joins>>

\* WriteErr with a return after the log of line 108: the deferred leave runs
\* while the read lock of line 97 is still held
WriteErr_Return(s) ==
    /\ pc[s] = "write"
    /\ failed' = [failed EXCEPT ![s] = @ \cup {client[s]}]
    /\ client' = [client EXCEPT ![s] = None]
    /\ pc' = [pc EXCEPT ![s] = "leave_lock"]
    /\ UNCHANGED <<rooms, lockVars, roomName, conn, cur, visited, sendlog, snap,
                   leaves, nrecv, joins>>

\* WriteErr removing the handle whose write failed from the room
WriteErr_Evict(s) ==
    /\ pc[s] = "write"
    /\ rooms' = MapPut(rooms, roomName[s], Members(roomName[s]) \ {client[s]})
    /\ failed' = [failed EXCEPT ![s] = @ \cup {client[s]}]
    /\ client' = [client EXCEPT ![s] = None]
    /\ pc' = [pc EXCEPT ![s] = "range"]
    /\ UNCHANGED <<lockVars, roomName, conn, cur, visited, sendlog, snap,
                   leaves, nrecv, joins>>

\* WriteErr with a break after the log of line 108: the range is abandoned
WriteErr_Break(s) ==
    /\ pc[s] = "write"
    /\ failed' = [failed EXCEPT ![s] = @ \cup {client[s]}]
    /\ client' = [client EXCEPT ![s] = None]
    /\ pc' = [pc EXCEPT ![s] = "runlock"]
    /\ UNCHANGED <<rooms, lockVars, roomName, conn, cur, visited, sendlog, snap,
                   leaves, nrecv, joins>>

\* lines 104-109: WriteMessage returns an error, which is logged
WriteErr(s) ==
    /\ pc[s] = "write"
    /\ failed' = [failed EXCEPT ![s] = @ \cup {client[s]}]
    /\ client' = [client EXCEPT ![s] = None]
    /\ pc' = [pc EXCEPT ![s] = "range"]
    /\ UNCHANGED <<rooms, lockVars, roomName, conn, cur, visited, sendlog, snap,
                   leaves, nrecv, joins>>

\* line 104: WriteMessage never returns (the peer does not read and no write
\* deadline is set on the connection)
WriteBlock(s) ==
    /\ pc[s] = "write"
    /\ pc' = [pc EXCEPT ![s] = "blocked"]
    /\ UNCHANGED <<rooms, lockVars, roomName, conn, loopVars, leaves, nrecv, joins>>

\* line 100: the range is exhausted
RangeEnd(s) ==
    /\ pc[s] = "range"
    /\ Members(roomName[s]) \subseteq visited[s]
    /\ pc' = [pc EXCEPT ![s] = "runlock"]
    /\ UNCHANGED <<rooms, lockVars, roomName, conn, loopVars, leaves, nrecv, joins>>

\* line 113: RUnlock(), then back to ReadMessage
RUnlock(s) ==
    /\ pc[s] = "runlock"
    /\ readers' = readers \ {s}
    /\ cur' = [cur EXCEPT ![s] = NoMsg]
    /\ visited' = [visited EXCEPT ![s] = {}]
    /\ sendlog' = [sendlog EXCEPT ![s] = EmptyLog]
    /\ failed' = [failed EXCEPT ![s] = {}]
    /\ snap' = [snap EXCEPT ![s] = {}]
    /\ pc' = [pc EXCEPT ![s] = "recv"]
    /\ UNCHANGED <<rooms, lockW, lockHeld, readerWait, roomName, conn, client,
                   leaves, nrecv, joins>>

\* ------------------------------------------------------------- deferred leave (lines 71-83)
LeaveLock(s) ==
    /\ pc[s] = "leave_lock"
    /\ LockRequest(s)
    /\ pc' = [pc EXCEPT ![s] = "leave_wait"]
    /\ UNCHANGED <<rooms, roomName, conn, loopVars, leaves, nrecv, joins>>

\* LeaveLocked not waiting for the readers to leave (the leave run without the
\* exclusion Lock() gives against fan-outs)
LeaveLocked_IgnoreReaders(s) ==
    /\ pc[s] = "leave_wait"
    /\ lockW = s
    /\ ~lockHeld
    /\ lockHeld' = TRUE
    /\ pc' = [pc EXCEPT ![s] = "leave_del"]
    /\ UNCHANGED <<rooms, lockW, readers, readerWait, roomName, conn, loopVars,
                   leaves, nrecv, joins>>

LeaveLocked(s) ==
    /\ pc[s] = "leave_wait"
    /\ LockAcquire(s)
    /\ pc' = [pc EXCEPT ![s] = "leave_del"]
    /\ UNCHANGED <<rooms, roomName, conn, loopVars, leaves, nrecv, joins>>

\* LeaveDelete without line 74: the handle stays in the room
LeaveDelete_Keep(s) ==
    /\ pc[s] = "leave_del"
    /\ leaves' = [leaves EXCEPT ![s] = @ + 1]
    /\ pc' = [pc EXCEPT ![s] = "leave_chk"]
    /\ UNCHANGED <<rooms, lockVars, roomName, conn, loopVars, nrecv, joins>>

\* line 74: delete(b.rooms[roomName], conn); a no-op on a missing room
LeaveDelete(s) ==
    /\ pc[s] = "leave_del"
    /\ rooms' = IF roomName[s] \in DOMAIN rooms
                THEN MapPut(rooms, roomName[s], rooms[roomName[s]] \ {s})
                ELSE rooms
    /\ leaves' = [leaves EXCEPT ![s] = @ + 1]
    /\ pc' = [pc EXCEPT ![s] = "leave_chk"]
    /\ UNCHANGED <<lockVars, roomName, conn, loopVars, nrecv, joins>>

\* LeaveCheck without the test of line 77: the room is deleted in any case
LeaveCheck_Always(s) ==
    /\ pc[s] = "leave_chk"
    /\ rooms' = MapDelete(rooms, roomName[s])
    /\ pc' = [pc EXCEPT ![s] = "leave_unlock"]
    /\ UNCHANGED <<lockVars, roomName, conn, loopVars, leaves, nrecv, joins>>

\* LeaveCheck without lines 77-80: the emptied room is kept
LeaveCheck_KeepEmpty(s) ==
    /\ pc[s] = "leave_chk"
    /\ pc' = [pc EXCEPT ![s] = "leave_unlock"]
    /\ UNCHANGED <<rooms, lockVars, roomName, conn, loopVars, leaves, nrecv, joins>>

\* lines 77-80: delete the room when it has no member left
LeaveCheck(s) ==
    /\ pc[s] = "leave_chk"
    /\ rooms' = IF Cardinality(Members(roomName[s])) = 0
                THEN MapDelete(rooms, roomName[s])
                ELSE rooms
    /\ pc' = [pc EXCEPT ![s] = "leave_unlock"]
    /\ UNCHANGED <<lockVars, roomName, conn, loopVars, leaves, nrecv, joins>>

\* line 81
LeaveUnlock(s) ==
    /\ pc[s] = "leave_unlock"
    /\ Unlock(s)
    /\ pc' = [pc EXCEPT ![s] = "close"]
    /\ UNCHANGED <<rooms, roomName, conn, loopVars, leaves, nrecv, joins>>

\* line 56: the deferred conn.Close() runs last
Close(s) ==
    /\ pc[s] = "close"
    /\ conn' = [conn EXCEPT ![s] = "closed"]
    /\ pc' = [pc EXCEPT ![s] = "done"]
    /\ UNCHANGED <<rooms, lockVars, roomName, loopVars, leaves, nrecv, joins>>

\* ------------------------------------------------------------- specification
\* every step of goroutine s but a WriteMessage call that never returns
Returning(s) ==
    \/ RejectRoom(s)
    \/ \E r \in RoomIds : UpgradeFail(s, r)
    \/ \E r \in RoomIds : UpgradeOk(s, r)
    \/ JoinLock(s)
    \/ JoinLocked(s)
    \/ JoinCreate(s)
    \/ JoinAdd(s)
    \/ JoinUnlock(s)
    \/ LogCount(s)
    \/ \E m \in Msgs : ReadMessage(s, m)
    \/ ReadError(s)
    \/ RLock(s)
    \/ RLockPark(s)
    \/ RLockWake(s)
    \/ RangeSelf(s)
    \/ \E c \in Conns : RangeClient(s, c)
    \/ WriteOk(s)
    \/ WriteErr(s)
    \/ RangeEnd(s)
    \/ RUnlock(s)
    \/ LeaveLock(s)
    \/ LeaveLocked(s)
    \/ LeaveDelete(s)
    \/ LeaveCheck(s)
    \/ LeaveUnlock(s)
    \/ Close(s)

\* every step of goroutine s
Step(s) ==
    \/ Returning(s)
    \/ WriteBlock(s)

Next == \E s \in Conns : Step(s)

Spec == Init /\ [][Next]_vars

\* the relay when every WriteMessage call returns
ReturningNext == \E s \in Conns : Returning(s)

ReturningSpec == Init /\ [][ReturningNext]_vars

\* The Go scheduler runs every runnable goroutine: each step that waits for
\* nothing outside the process is taken when it stays possible.  Requests,
\* ReadMessage and WriteMessage wait for the peer and are not forced.
Internal(s) ==
    \/ JoinLock(s)
    \/ JoinLocked(s)
    \/ JoinCreate(s)
    \/ JoinAdd(s)
    \/ JoinUnlock(s)
    \/ LogCount(s)
    \/ RLock(s)
    \/ RLockPark(s)
    \/ RLockWake(s)
    \/ RangeSelf(s)
    \/ \E c \in Conns : RangeClient(s, c)
    \/ RangeEnd(s)
    \/ RUnlock(s)
    \/ LeaveLock(s)
    \/ LeaveLocked(s)
    \/ LeaveDelete(s)
    \/ LeaveCheck(s)
    \/ LeaveUnlock(s)
    \/ Close(s)

FairSpec == Spec /\ \A s \in Conns : WF_vars(Internal(s))

\* ------------------------------------------------------------- the leave on its own
\* The deferred function of lines 71-83 as an operation on (b.rooms, roomName,
\* conn): it is applied once, by goroutine s with any room name, to any
\* registry without empty rooms in which each handle is in at most one room
\* (at[c] is the room of c, NoRoom for none); the members sit in ReadMessage.
LeaveInit ==
    \E at \in [Conns -> RoomIds \cup {NoRoom}] : \E s \in Conns : \E r \in RoomIds :
        /\ rooms = [x \in {at[c] : c \in Conns} \ {NoRoom} |-> {c \in Conns : at[c] = x}]
        /\ lockW = None
        /\ lockHeld = FALSE
        /\ readers = {}
        /\ readerWait = {}
        /\ pc = [c \in Conns |-> IF c = s THEN "leave_lock"
                                 ELSE IF at[c] = NoRoom THEN "start" ELSE "recv"]
        /\ roomName = [c \in Conns |-> IF c = s THEN r ELSE at[c]]
        /\ conn = [c \in Conns |-> IF c = s \/ at[c] # NoRoom THEN "open" ELSE "nil"]
        /\ cur = [c \in Conns |-> NoMsg]
        /\ visited = [c \in Conns |-> {}]
        /\ client = [c \in Conns |-> None]
        /\ sendlog = [c \in Conns |-> EmptyLog]
        /\ failed = [c \in Conns |-> {}]
        /\ snap = [c \in Conns |-> {}]
        /\ joins = [c \in Conns |-> IF at[c] = NoRoom THEN 0 ELSE 1]
        /\ leaves = [c \in Conns |-> 0]
        /\ nrecv = 0

LeaveNext ==
    \E s \in Conns :
        \/ LeaveLock(s)
        \/ LeaveLocked(s)
        \/ LeaveDelete(s)
        \/ LeaveCheck(s)
        \/ LeaveUnlock(s)

LeaveSpec == LeaveInit /\ [][LeaveNext]_vars

\* a step of s that waits for nothing but the lock or the return of a
\* WriteMessage call
Proceeds(s) == Internal(s) \/ WriteOk(s) \/ WriteErr(s)

\* ------------------------------------------------------------- vocabulary of the claims
\* s is between Lock() and Unlock() of the join or of the leave
InWrite(s) == pc[s] \in {"join_create", "join_add", "join_unlock",
                         "leave_del", "leave_chk", "leave_unlock"}

\* s is between RLock() and RUnlock()
InFanOut(s) == pc[s] \in {"range", "write", "blocked", "runlock"}

\* the join of s has returned and its leave has not removed it yet
Joined(s) == pc[s] \in {"log", "recv", "rlock", "rlock_wait", "range", "write",
                        "blocked", "runlock", "leave_lock", "leave_wait", "leave_del"}

\* the leave of s has removed it
HasLeft(s) == pc[s] \in {"leave_chk", "leave_unlock", "close", "done"}

AllRooms == RoomIds \cup {NoRoom}

\* ------------------------------------------------------------- claims
\* C1: whenever no goroutine holds the exclusive lock, a room name is a key of
\* b.rooms exactly when the room has at least one member: no empty room is
\* observable.
C1_NoEmptyRoom ==
    ~lockHeld =>
        /\ DOMAIN rooms \subseteq RoomIds
        /\ \A r \in AllRooms : (r \in DOMAIN rooms) <=> (Members(r) # {})

\* a room has been emptied by a leave and is gone while another room lives on
C1_Witness ==
    /\ ~lockHeld
    /\ \E s \in Conns : pc[s] = "close" /\ roomName[s] \notin DOMAIN rooms
    /\ DOMAIN rooms # {}

\* C2: a fan-out of the message m that s received calls WriteMessage(m) at
\* most once on a member of the room other than s, never on s or on a
\* non-member, and when its range ends it has done so exactly once on every
\* member other than s; the members are those of one point in time, the moment
\* the read lock was obtained.
C2_FanOut ==
    \A s \in Conns : InFanOut(s) =>
        /\ cur[s] \in Msgs
        /\ Members(roomName[s]) = snap[s]
        /\ \A c \in Conns :
              IF c \in snap[s] \ {s}
              THEN /\ sendlog[s][c] \in {<<>>, <<cur[s]>>}
                   /\ pc[s] = "runlock" => sendlog[s][c] = <<cur[s]>>
              ELSE sendlog[s][c] = <<>>

\* a fan-out in a room of three has ended: two recipients, the sender skipped
C2_Witness ==
    \E s \in Conns :
        /\ pc[s] = "runlock"
        /\ snap[s] = Conns
        /\ \A c \in Conns \ {s} : sendlog[s][c] = <<cur[s]>>

\* C3: in a room that no goroutine has left, every handle whose join has
\* returned is a member, and once no join into the room is under way the
\* members are exactly the handles whose join has returned.
C3_NoLostJoin ==
    \A r \in RoomIds :
        (\A t \in Conns : roomName[t] = r => ~HasLeft(t)) =>
            LET joined == {s \in Conns : roomName[s] = r /\ Joined(s)}
            IN  /\ joined \subseteq Members(r)
                /\ (\A t \in Conns : roomName[t] = r => ~InWrite(t))
                       => Members(r) = joined

\* all three handles have joined one room and none has left
C3_Witness ==
    \E r \in RoomIds :
        /\ \A s \in Conns : roomName[s] = r /\ Joined(s)
        /\ Members(r) = Conns

\* C4: once the leave of d has released the exclusive lock, d is no member of
\* its room, no fan-out holding the read lock has d among the members it
\* ranges over or writes to d, and the step that releases the lock leaves the
\* room name out of b.rooms when d was its last member.
C4_Departed ==
    /\ [](\A d \in Conns : pc[d] \in {"close", "done"} =>
            /\ d \notin Members(roomName[d])
            /\ \A s \in Conns : InFanOut(s) =>
                  /\ d \notin snap[s]
                  /\ sendlog[s][d] = <<>>
                  /\ client[s] # d)
    /\ [][\A d \in Conns : (pc[d] = "leave_unlock" /\ pc'[d] = "close") =>
            /\ ~lockHeld'
            /\ d \notin Members(roomName[d])'
            /\ (Members(roomName[d])' = {}) => (roomName[d] \notin DOMAIN rooms')]_vars

\* d has left a room of three and a later fan-out there has written to the
\* one remaining peer only
C4_Witness ==
    \E d \in Conns : \E s \in Conns \ {d} :
        /\ pc[d] = "done"
        /\ leaves[d] = 1
        /\ roomName[s] = roomName[d]
        /\ pc[s] = "runlock"
        /\ \E c \in Conns \ {s, d} : sendlog[s][c] # <<>>

\* C5: a goroutine runs the leave at most once, only after its join; its
\* handle is closed only after the leave has run once and released the lock,
\* and a closed handle is a member of no room.
C5_LeaveOnceThenClose ==
    \A s \in Conns :
        /\ leaves[s] <= 1
        /\ leaves[s] = 1 <=> HasLeft(s)
        /\ pc[s] \in {"close", "done"} => leaves[s] = 1 /\ lockW # s
        /\ conn[s] = "closed" <=> pc[s] = "done"
        /\ conn[s] = "closed" => \A r \in AllRooms : s \notin Members(r)

\* a handle has been closed after its leave while a peer is still in the room
C5_Witness ==
    \E s \in Conns :
        /\ conn[s] = "closed"
        /\ leaves[s] = 1
        /\ Members(roomName[s]) # {}

\* C6: under fair scheduling of the goroutines, a goroutine whose receive has
\* failed eventually removes its handle from its room and closes it.
C6_CleanupGuaranteed ==
    \A s \in Conns :
        (pc[s] = "leave_lock") ~>
            (pc[s] = "done" /\ conn[s] = "closed" /\ s \notin Members(roomName[s]))

\* C7: a request with an empty room name, or whose upgrade fails, ends the
\* handler without a handle, without touching b.lock and without changing
\* b.rooms; the empty name never becomes a key.
C7_RejectedUntouched ==
    /\ [](/\ NoRoom \notin DOMAIN rooms
          /\ \A s \in Conns : (pc[s] # "start" /\ (roomName[s] = NoRoom \/ conn[s] = "nil")) =>
                /\ pc[s] \in {"rejected", "dropped"}
                /\ lockW # s
                /\ s \notin readers \cup readerWait
                /\ \A r \in AllRooms : s \notin Members(r))
    /\ [][\A s \in Conns : (pc[s] = "start" /\ pc'[s] # "start"
                              /\ (roomName'[s] = NoRoom \/ conn'[s] = "nil")) =>
            /\ pc'[s] \in {"rejected", "dropped"}
            /\ rooms' = rooms
            /\ UNCHANGED lockVars]_vars

\* one request was rejected for its room name, one lost its upgrade, and the
\* registry still holds the room of the third
C7_Witness ==
    \E s, t \in Conns :
        /\ pc[s] = "rejected"
        /\ pc[t] = "dropped"
        /\ DOMAIN rooms # {}

\* C8: a WriteMessage error during a fan-out neither ends the fan-out nor the
\* sender: the sender stays inside the fan-out and a member of its room, the
\* range still ends with one WriteMessage call on every member other than the
\* sender, and from there the sender goes back to ReadMessage.
C8_SendFailureIsolated ==
    /\ [](\A s \in Conns : failed[s] # {} =>
            /\ InFanOut(s)
            /\ s \in Members(roomName[s])
            /\ pc[s] = "runlock" =>
                  \A c \in snap[s] \ {s} : Len(sendlog[s][c]) = 1)
    /\ [][\A s \in Conns :
            /\ (pc[s] = "write" /\ failed'[s] # failed[s]) => pc'[s] = "range"
            /\ (pc[s] = "runlock" /\ failed[s] # {} /\ pc'[s] # "runlock") =>
                  /\ pc'[s] = "recv"
                  /\ s \in Members(roomName[s])']_vars

\* after a failed send to one peer, a send to another peer is under way
C8_Witness ==
    \E s \in Conns :
        /\ pc[s] = "write"
        /\ failed[s] # {}
        /\ client[s] \notin failed[s]

\* C9: a send that never completes stalls neither its sender, which can still
\* take its next step, nor the goroutines waiting to join or to leave.
C9_NoHeadOfLineStall ==
    \A s \in Conns : pc[s] = "blocked" =>
        /\ ENABLED Step(s)
        /\ \A t \in Conns \ {s} :
              (pc[t] \in {"join_wait", "leave_wait"} /\ lockW = t /\ readers = {s})
                  => ENABLED Step(t)

\* C10: while a goroutine is between Lock() and Unlock() of a join or a leave
\* it holds the exclusive lock and no other goroutine is inside a join, a
\* leave or a fan-out; a goroutine inside a fan-out is counted as a reader.
C10_ReaderWriter ==
    \A s \in Conns :
        /\ InWrite(s) =>
              /\ lockHeld /\ lockW = s /\ readers = {}
              /\ \A t \in Conns \ {s} : ~InWrite(t) /\ ~InFanOut(t)
        /\ InFanOut(s) => s \in readers /\ ~lockHeld

\* two goroutines are inside fan-outs at the same time
C10_Witness ==
    \E s \in Conns : \E t \in Conns \ {s} :
        /\ pc[s] = "write"
        /\ pc[t] = "write"

\* C11: a goroutine receives its next message only when the fan-out of the
\* previous one is over (no send of its own running, read lock released, no
\* send of the old message left to make), and inside a fan-out it calls
\* WriteMessage with the message it last received and only after its previous
\* WriteMessage call has returned: the sends of an earlier message to a peer
\* are finished before a send of a later message to that peer is attempted.
C11_PerSenderOrder ==
    /\ [](\A s \in Conns : pc[s] \in {"recv", "rlock"} =>
            /\ client[s] = None
            /\ s \notin readers
            /\ sendlog[s] = EmptyLog
            /\ pc[s] = "recv" => cur[s] = NoMsg)
    /\ [][\A s \in Conns :
            /\ (nrecv' # nrecv /\ pc'[s] # pc[s]) =>
                  /\ pc[s] = "recv"
                  /\ client[s] = None
                  /\ s \notin readers
                  /\ sendlog[s] = EmptyLog
                  /\ cur'[s] \in Msgs
            /\ \A p \in Conns :
                  (sendlog'[s][p] # sendlog[s][p] /\ sendlog'[s][p] # <<>>) =>
                      /\ client[s] = None
                      /\ client'[s] = p
                      /\ cur'[s] = cur[s]
                      /\ sendlog'[s][p] = Append(sendlog[s][p], cur[s])]_vars

\* s has received both messages of the run (the two peers have not reached
\* their first ReadMessage) and a send of the second one is under way
C11_Witness ==
    \E s \in Conns :
        /\ nrecv = 2
        /\ pc[s] = "write"
        /\ \A t \in Conns \ {s} : pc[t] = "log" /\ roomName[t] = roomName[s]

\* C12: a handle is a member of no room but the one its goroutine asked for,
\* and only after the one join that goroutine makes; the room name of a
\* goroutine never changes after the request, and a fan-out ranges over and
\* writes to the members of that room only.
C12_OneRoomPerHandle ==
    /\ [](\A s \in Conns :
            /\ joins[s] <= 1
            /\ \A r \in AllRooms : s \in Members(r) =>
                  r = roomName[s] /\ r \in RoomIds /\ joins[s] = 1
            /\ InFanOut(s) =>
                  /\ joins[s] = 1
                  /\ s \in Members(roomName[s])
                  /\ snap[s] = Members(roomName[s])
                  /\ \A c \in Conns : sendlog[s][c] # <<>> =>
                        roomName[c] = roomName[s] /\ c \in Members(roomName[s]))
    /\ [][\A s \in Conns : pc[s] # "start" => roomName'[s] = roomName[s]]_vars

\* both rooms have members and a fan-out in one of them has ended with a send
C12_Witness ==
    \E s \in Conns : \E d \in Conns \ {s} :
        /\ pc[s] = "runlock"
        /\ \E c \in Conns : sendlog[s][c] # <<>>
        /\ roomName[d] # roomName[s]
        /\ d \in Members(roomName[d])

\* C13: a leave applied to a room and a handle that is no member of it, the
\* room being absent or present with other members, changes b.rooms at none of
\* its steps: no room is created, no member and no room is removed.
C13_LeaveOfNonMember ==
    [][\A s \in Conns :
          ( /\ pc[s] \in {"leave_lock", "leave_wait", "leave_del", "leave_chk",
                          "leave_unlock"}
            /\ s \notin Members(roomName[s])
            /\ (roomName[s] \notin DOMAIN rooms \/ Members(roomName[s]) # {}) )
          => rooms' = rooms]_vars

\* the leave of a handle that was in no room has run to its Unlock on a room
\* that has other members, and on a second room that is absent
C13_Witness ==
    \E s \in Conns :
        /\ pc[s] = "close"
        /\ leaves[s] = 1
        /\ joins[s] = 0
        /\ Members(roomName[s]) # {}
        /\ DOMAIN rooms # RoomIds

\* C14: a fan-out in a room ranges over every handle whose join into that
\* room has returned and whose leave has not yet removed it, and when its
\* range ends it has called WriteMessage on each of them but the sender.
C14_JoinVisible ==
    \A s \in Conns : InFanOut(s) =>
        \A c \in Conns : (roomName[c] = roomName[s] /\ Joined(c)) =>
            /\ c \in snap[s]
            /\ c \in Members(roomName[s])
            /\ (c # s /\ (pc[s] = "runlock" \/ c \in visited[s]))
                  => sendlog[s][c] = <<cur[s]>>

\* a send is under way to a handle whose join has only just returned
C14_Witness ==
    \E s \in Conns : \E c \in Conns \ {s} :
        /\ pc[s] = "write"
        /\ client[s] = c
        /\ pc[c] = "log"

\* the next statement of s reads or writes b.rooms or one of its inner maps
ReadsMap(s) == pc[s] \in {"log", "range"}
WritesMap(s) == pc[s] \in {"join_create", "join_add", "leave_del", "leave_chk"}

\* C15: a goroutine about to write the map holds the exclusive lock, one about
\* to read it holds the lock (shared or exclusive), and the member count of
\* line 68 is never read while another goroutine is about to write the map.
C15_LockedAccess ==
    \A s \in Conns :
        /\ WritesMap(s) => lockHeld /\ lockW = s
        /\ ReadsMap(s) => s \in readers \/ (lockHeld /\ lockW = s)
        /\ pc[s] = "log" => \A t \in Conns \ {s} : ~WritesMap(t)

\* C16: no two goroutines have a WriteMessage call running on the same handle.
C16_SingleWriter ==
    \A s \in Conns : \A t \in Conns \ {s} :
        (pc[s] \in {"write", "blocked"} /\ pc[t] \in {"write", "blocked"})
            => client[s] # client[t]

\* C17: a WriteMessage call is made and runs only on a handle that is open and
\* whose goroutine has not left: every member a fan-out ranges over stays an
\* unclosed member until the fan-out releases the read lock, and every member
\* of every room is open.
C17_NoSendAfterClose ==
    /\ \A r \in DOMAIN rooms : \A c \in rooms[r] : conn[c] = "open"
    /\ \A s \in Conns :
          /\ pc[s] \in {"write", "blocked"} =>
                /\ conn[client[s]] = "open"
                /\ ~HasLeft(client[s])
          /\ InFanOut(s) => \A c \in snap[s] : conn[c] = "open" /\ ~HasLeft(c)

\* a send is running on a handle whose goroutine is waiting in the leave's
\* Lock(), while a third handle is already closed
C17_Witness ==
    \E s \in Conns : \E c \in Conns \ {s} :
        /\ pc[s] = "write"
        /\ client[s] = c
        /\ pc[c] = "leave_wait"
        /\ \E d \in Conns : conn[d] = "closed"

\* C18: while any goroutine is inside a fan-out no step changes b.rooms, so
\* the room is what it was when the read lock was obtained; a handle whose
\* WriteMessage failed is still a member, and a handle is taken out of a room
\* by the delete of its own goroutine's leave only.
C18_FanOutReadOnly ==
    /\ [](\A s \in Conns : InFanOut(s) =>
            /\ Members(roomName[s]) = snap[s]
            /\ \A c \in failed[s] : c \in Members(roomName[s]) /\ ~HasLeft(c))
    /\ [][(\E s \in Conns : InFanOut(s)) => rooms' = rooms]_vars
    /\ [][\A c \in Conns : \A r \in AllRooms :
            (c \in Members(r) /\ c \notin Members(r)') => pc[c] = "leave_del"]_vars

\* a fan-out has ended after a failed send and the recipient is still a member
C18_Witness ==
    \E s \in Conns :
        /\ pc[s] = "runlock"
        /\ failed[s] # {}
        /\ failed[s] \subseteq Members(roomName[s])

\* s has called Lock() or RLock() and the call has not returned
Waiting(s) ==
    \/ pc[s] \in {"join_wait", "leave_wait"}
    \/ pc[s] \in {"join_lock", "leave_lock", "rlock"} /\ lockW # None
    \/ pc[s] = "rlock_wait" /\ s \notin readers

\* steps s still has to take before it releases the lock it holds
Rank(s) ==
    LET left == Cardinality(Members(roomName[s]) \ visited[s])
    IN  CASE pc[s] \in {"join_create", "leave_del"}   -> 3
          [] pc[s] \in {"join_add", "leave_chk"}      -> 2
          [] pc[s] \in {"join_unlock", "leave_unlock"} -> 1
          [] pc[s] = "range"                           -> 2 * left + 2
          [] pc[s] = "write"                           -> 2 * left + 3
          [] pc[s] = "runlock"                         -> 1
          [] OTHER                                     -> 0

\* C19: with every WriteMessage call returning, a goroutine calls Lock() or
\* RLock() only while it holds the lock in no way; a goroutine inside a join,
\* a leave or a fan-out always has a step to take, each of its steps brings it
\* nearer to its Unlock()/RUnlock() and no other step takes it further away;
\* and whenever a goroutine waits for the lock, some goroutine that holds it,
\* or the waiting one, can take a step.
C19_DeadlockFree ==
    /\ [](\A s \in Conns :
            /\ pc[s] \in {"join_lock", "leave_lock", "rlock"} =>
                  lockW # s /\ s \notin readers /\ s \notin readerWait
            /\ lockW = s => pc[s] \in {"join_wait", "leave_wait"} \/ InWrite(s)
            /\ s \in readers => pc[s] = "rlock_wait" \/ InFanOut(s)
            /\ s \in readerWait => pc[s] = "rlock_wait"
            /\ (InWrite(s) \/ InFanOut(s)) => ENABLED Proceeds(s)
            /\ Waiting(s) => \E t \in Conns :
                  /\ t = s \/ lockW = t \/ t \in readers
                  /\ ENABLED Proceeds(t))
    /\ [][\A s \in Conns : (InWrite(s) \/ InFanOut(s)) =>
            /\ Rank(s)' <= Rank(s)
            /\ (pc'[s] # pc[s] \/ visited'[s] # visited[s]) => Rank(s)' < Rank(s)]_vars

\* a join and a leave wait for the lock behind a fan-out whose send is running
C19_Witness ==
    \E s \in Conns : \E t \in Conns \ {s} : \E u \in Conns \ {s, t} :
        /\ pc[s] = "write"
        /\ pc[t] = "leave_wait"
        /\ pc[u] = "join_lock"
        /\ Waiting(t) /\ Waiting(u)

\* C20: a step taken while s is inside its join or its leave changes neither
\* the members nor the presence of any room but the one s named, and in that
\* room it keeps every member other than s and adds none other than s.
C20_OnlyOwnRoom ==
    [][\A s \in Conns : InWrite(s) =>
          /\ \A r \in AllRooms \ {roomName[s]} :
                /\ Members(r)' = Members(r)
                /\ (r \in DOMAIN rooms') <=> (r \in DOMAIN rooms)
          /\ Members(roomName[s])' \ {s} = Members(roomName[s]) \ {s}]_vars

\* s has been deleted from a room that keeps a member, while the other room
\* has a member too
C20_Witness ==
    \E s \in Conns :
        /\ pc[s] = "leave_chk"
        /\ Members(roomName[s]) # {}
        /\ \E r \in RoomIds \ {roomName[s]} : Members(r) # {}

====
